---- MODULE Spec2Model ----
(***************************************************************************)
(* A model of threads/threads.c: X(threads_init) and X(spawn_loop), over   *)
(* every thread glue the file can be built with.  Unsigned arithmetic is   *)
(* done modulo 2^UintBits, a scaled-down uint.                             *)
(***************************************************************************)
EXTENDS Integers, Sequences, FiniteSets, TLC

(* ------------------------------ bounds -------------------------------- *)

\* width in bits of the scaled-down `uint`
UintBits == 3

\* largest quotient the model lets an undefined division (x / 0) leave behind
MaxQuot == 3

UintMod == 2 ^ UintBits
Uint == 0 .. (UintMod - 1)

(* --------------------------- build variants --------------------------- *)

\* the glues of threads.c, plus "none" for a build without HAVE_THREADS
Backends ==
  {"none", "solaris", "beos", "macos", "win32", "mach", "compiler", "posix"}

HAVE_THREADS(b) == b # "none"

USING_COMPILER_THREADS(b) == b = "compiler"

ExplicitSpawn(b) == HAVE_THREADS(b) /\ ~USING_COMPILER_THREADS(b)

\* fftw_thr_spawn / fftw_thr_wait wrap the native call in CK(...) only for POSIX
SpawnIsChecked(b) == b = "posix"

\* glues whose spawn macro stores the native call's return value in *tid_ptr;
\* the others hand tid_ptr to the native call, which fills it on success only
TidAssignedFromReturn(b) == b \in {"beos", "win32", "mach"}

(* ---------------------------- threads_init ---------------------------- *)

Hooks == {"kdft_dit_register_hook", "khc2hc_dit_register_hook",
          "khc2hc_dif_register_hook"}

NoThreadsStatus == -31416

\* non-zero codes a pthread_attr_* call can return
ErrCodes == {12, 22}

DetachStates == {"JOINABLE", "DETACHED"}
Scopes == {"SYSTEM", "PROCESS"}

\* the steps of threads_init at which a pthread_attr_* call is made
AttrCalls == {"attr_init", "getdetachstate", "setdetachstate", "getscope",
              "setscope", "attr_destroy"}

\* the pthread_attr_* calls threads_init makes, in order, on a platform whose
\* default attributes are (dd, ds)
InitCallSeq(dd, ds) ==
  <<"attr_init", "getdetachstate">>
  \o (IF dd # "JOINABLE" THEN <<"setdetachstate">> ELSE <<>>)
  \o <<"getscope">>
  \o (IF ds # "SYSTEM" THEN <<"setscope">> ELSE <<>>)
  \o (IF dd # "JOINABLE" \/ ds # "SYSTEM" THEN <<>> ELSE <<"attr_destroy">>)

\* position of call c in sequence s (0 when absent)
PosOf(s, c) ==
  IF \E k \in 1..Len(s) : s[k] = c
  THEN CHOOSE k \in 1..Len(s) : s[k] = c
  ELSE 0

\* TRUE when call c of threads_init is reached and returns success, given that
\* call `failing` (or "nothing") is the one that fails
CallDone(dd, ds, failing, c) ==
  LET s == InitCallSeq(dd, ds) IN
    /\ PosOf(s, c) # 0
    /\ failing = "nothing" \/ PosOf(s, c) < PosOf(s, failing)

UninitAttr == [state |-> "uninit", detach |-> "none", scope |-> "none"]

\* the static fftw_pthread_attributes object after threads_init
AttrObjAfter(dd, ds, failing) ==
  IF ~CallDone(dd, ds, failing, "attr_init") THEN UninitAttr
  ELSE [state  |-> IF CallDone(dd, ds, failing, "attr_destroy")
                   THEN "destroyed" ELSE "init",
        detach |-> IF CallDone(dd, ds, failing, "setdetachstate")
                   THEN "JOINABLE" ELSE dd,
        scope  |-> IF CallDone(dd, ds, failing, "setscope")
                   THEN "SYSTEM" ELSE ds]

\* attr_changed at the `if (attr_changed)` test
AttrChanged(dd, ds, failing) ==
  \/ CallDone(dd, ds, failing, "setdetachstate")
  \/ CallDone(dd, ds, failing, "setscope")

\* TRUE when threads_init gets as far as the `if (attr_changed)` statement
ReachesPointerAssignment(dd, ds, failing) ==
  failing \in {"nothing", "attr_destroy"}

\* a threads_init that always falls back to the default attributes (NULL)
AttrPtrAlwaysDefault(dd, ds, failing, old) ==
  IF ~ReachesPointerAssignment(dd, ds, failing) THEN old ELSE "NULL"

\* fftw_pthread_attributes_p after threads_init, `old` being its value before
AttrPtrAfter(dd, ds, failing, old) ==
  IF ~ReachesPointerAssignment(dd, ds, failing) THEN old
  ELSE IF AttrChanged(dd, ds, failing) THEN "attributes" ELSE "NULL"

\* a threads_init whose last return is `return 0` whatever the build
InitStatusAlwaysZero(b, failing, e) ==
  IF b = "posix" /\ failing # "nothing" THEN e ELSE 0

\* value returned by threads_init
InitStatus(b, failing, e) ==
  IF b = "posix" /\ failing # "nothing" THEN e
  ELSE IF HAVE_THREADS(b) THEN 0
  ELSE NoThreadsStatus

\* a threads_init that assigns the hooks before it sets up the attributes
HooksAssignedFirst(b, failing) ==
  IF HAVE_THREADS(b) THEN Hooks ELSE {}

\* the solver-registration hooks assigned by threads_init
HooksAssigned(b, failing) ==
  IF HAVE_THREADS(b) /\ (b # "posix" \/ failing = "nothing") THEN Hooks ELSE {}

(* ----------------------- the loop partitioner -------------------------- *)

\* block_size = (loopmax + nthr - 1) / nthr, in uint arithmetic (nt > 0)
BlockSize(lm, nt) == ((lm + nt - 1) % UintMod) \div nt

\* nthr = (loopmax + block_size - 1) / block_size, in uint arithmetic (bs > 0)
AdjustedThreads(lm, bs) == ((lm + bs - 1) % UintMod) \div bs

\* a branch test written `nthr < 1`
TakesSingleBranchStrict(n) == n < 1

\* the test that selects the synchronous single-range branch
TakesSingleBranch(n) == n <= 1

\* a spawn_data not written yet (-1: no value has been stored)
NoRec == [min |-> -1, max |-> -1, thr_num |-> -1, data |-> "unset"]

\* the spawn_data of the single-range branch (and of a build without threads)
SingleRecord(lm, dp) == [min |-> 0, max |-> lm, thr_num |-> 0, data |-> dp]

\* a spawning loop that stores the data field only after the spawn
SpawnedRecordDataLate(k, bs, dp) ==
  LET mn == (k * bs) % UintMod IN
    [min |-> mn, max |-> (mn + bs) % UintMod, thr_num |-> k, data |-> "unset"]

\* d[k] as written inside the spawning loop (explicit thread spawning)
SpawnedRecord(k, bs, dp) ==
  LET mn == (k * bs) % UintMod IN
    [min |-> mn, max |-> (mn + bs) % UintMod, thr_num |-> k, data |-> dp]

\* d[k] as written after the spawning loop, for the block the caller runs itself
LocalRecord(k, bs, lm, dp) ==
  [min |-> (k * bs) % UintMod, max |-> lm, thr_num |-> k, data |-> dp]

\* the private d of iteration k of the compiler-parallelised loop
CompilerRecord(k, bs, lm, dp) ==
  LET mn == (k * bs) % UintMod
      mx == (mn + bs) % UintMod
  IN [min |-> mn, max |-> IF mx > lm THEN lm ELSE mx, thr_num |-> k, data |-> dp]

(* ------------------------------- state -------------------------------- *)

DataPtrs == {"data_p", "data_q"}

VARIABLES
  backend,      \* the thread glue this build was compiled with
  defDetach,    \* the platform's default detach state for new POSIX threads
  defScope,     \* the platform's default contention scope
  initRet,      \* the values threads_init has returned (<<>> before it is called)
  hooks,        \* the solver-registration hooks that have been assigned
  attrP,        \* fftw_pthread_attributes_p: "NULL" or "attributes"
  attrObj,      \* the static fftw_pthread_attributes object
  err,          \* threads_init's local err when it returned (0 before)
  pc,           \* where the thread that calls spawn_loop is
  fault,        \* why the process aborted ("none" while it has not)
  loopmax,      \* spawn_loop's arguments ...
  nthreads,     \*   (the requested thread count, as passed)
  data,
  block_size,   \* spawn_loop's locals ...
  nthr,         \*   (the parameter nthr, reassigned by the partitioner)
  i,
  d,            \* the spawn_data records, by index
  tid,          \* the thread ids, by index
  alloc,        \* which of the STACK_MALLOCed arrays are currently allocated
  thr,          \* per spawn index: what became of the native thread
  run,          \* per record index: state of proc's invocation on that record
  who,          \* per record index: which thread invoked proc on it
  spawnCalls,   \* number of fftw_thr_spawn calls issued by the current call
  joinCalls     \* the fftw_thr_wait calls made, in order: the id passed and
                \*   whether the native join succeeded

platform == <<backend, defDetach, defScope>>
initVars == <<initRet, hooks, attrP, attrObj, err>>
callVars == <<loopmax, nthreads, data, block_size, nthr, i, d, tid, alloc,
              thr, run, who, spawnCalls, joinCalls>>
vars == <<platform, initVars, pc, fault, callVars>>

Empty == [k \in {} |-> 0]

Fill(n, v) == [k \in 0 .. (n - 1) |-> v]

Init ==
  /\ backend \in Backends
  /\ defDetach \in DetachStates
  /\ defScope \in Scopes
  /\ backend # "posix" => (defDetach = "JOINABLE" /\ defScope = "SYSTEM")
  /\ initRet = <<>>
  /\ hooks = {}
  /\ attrP = "NULL"
  /\ attrObj = UninitAttr
  /\ err = 0
  /\ pc = "idle"
  /\ fault = "none"
  /\ loopmax = 0 /\ nthreads = 0 /\ data = "NULL"
  /\ block_size = 0 /\ nthr = 0 /\ i = 0
  /\ d = Empty /\ tid = Empty /\ alloc = {}
  /\ thr = Empty /\ run = Empty /\ who = Empty
  /\ spawnCalls = 0 /\ joinCalls = <<>>

\* the caller is between calls into this file
AtRest == pc = "idle"

(* ---------------------------- threads_init ---------------------------- *)

\* err when threads_init returns, e being what the failing call returned
ErrAfter(b, failing, e) == IF b = "posix" /\ failing # "nothing" THEN e ELSE 0

\* threads_init, as one step (nothing runs concurrently with it).  A process
\* calls it once, at start-up or between two spawn_loop calls; spawn_loop may
\* also be called without it or after it failed.
ThreadsInit ==
  /\ AtRest
  /\ initRet = <<>>
  /\ \E failing \in {"nothing"} \cup AttrCalls, e \in ErrCodes :
       /\ failing # "nothing" =>
            /\ backend = "posix"
            /\ PosOf(InitCallSeq(defDetach, defScope), failing) # 0
       /\ err' = ErrAfter(backend, failing, e)
       /\ initRet' = <<InitStatus(backend, failing, e)>>
       /\ hooks' = hooks \cup HooksAssigned(backend, failing)
       /\ IF backend = "posix"
          THEN /\ attrObj' = AttrObjAfter(defDetach, defScope, failing)
               /\ attrP' = AttrPtrAfter(defDetach, defScope, failing, attrP)
          ELSE UNCHANGED <<attrObj, attrP>>
  /\ UNCHANGED <<platform, pc, fault, callVars>>

(* ----------------------------- spawn_loop ----------------------------- *)

\* a tid entry no spawn has written, and one that names no thread
UninitTid == [state |-> "uninit", thread |-> -1]
InvalidTid == [state |-> "invalid", thread |-> -1]

\* a fresh call: the arguments are bound and the per-call bookkeeping cleared
BindArgs(lm, nt, dp) ==
  /\ loopmax' = lm /\ nthreads' = nt /\ data' = dp
  /\ spawnCalls' = 0 /\ joinCalls' = <<>>

\* the single-range branch: one spawn_data on the caller's stack, proc(&d)
RunSingle(lm, dp) ==
  /\ d' = Fill(1, SingleRecord(lm, dp))
  /\ run' = Fill(1, "running")
  /\ who' = Fill(1, "caller")
  /\ tid' = Empty /\ thr' = Empty /\ alloc' = {} /\ i' = 0
  /\ pc' = "single"

\* what follows `nthr = n` for the build at hand
Dispatch(n, lm, dp) ==
  IF TakesSingleBranch(n)
  THEN /\ nthr' = n
       /\ RunSingle(lm, dp)
  ELSE IF USING_COMPILER_THREADS(backend)
  THEN /\ nthr' = n
       /\ d' = Fill(n, NoRec)
       /\ run' = Fill(n, "none")
       /\ who' = Fill(n, "nobody")
       /\ tid' = Empty /\ thr' = Empty /\ alloc' = {} /\ i' = 0
       /\ pc' = "region"
  ELSE \* STACK_MALLOC of d (nthr entries) and of tid (--nthr entries)
       /\ nthr' = n - 1
       /\ d' = Fill(n, NoRec)
       /\ tid' = Fill(n - 1, UninitTid)
       /\ alloc' = {"d", "tid"}
       /\ thr' = Fill(n - 1, "unspawned")
       /\ run' = Fill(n, "none")
       /\ who' = Fill(n, "nobody")
       /\ i' = 0
       /\ pc' = "spawn"

\* spawn_loop of a build without threads: no assertion, nthr unused
EnterNoThreads ==
  /\ AtRest
  /\ ~HAVE_THREADS(backend)
  /\ \E lm \in Uint, nt \in Uint, dp \in DataPtrs :
       /\ BindArgs(lm, nt, dp)
       /\ block_size' = 0 /\ nthr' = nt
       /\ RunSingle(lm, dp)
  /\ UNCHANGED <<platform, initVars, fault>>

\* A(loopmax > 0); A(nthr > 0);  The macros A and CK come from ifftw.h; a
\* failed A or CK is taken to abort the process.
AssertionsHold(lm, nt) == lm > 0 /\ nt > 0

EnterAssertFails ==
  /\ AtRest
  /\ HAVE_THREADS(backend)
  /\ \E lm \in Uint, nt \in Uint, dp \in DataPtrs :
       /\ ~AssertionsHold(lm, nt)
       /\ BindArgs(lm, nt, dp)
       /\ fault' = "assertion"
       /\ pc' = "aborted"
       /\ block_size' = 0 /\ nthr' = nt /\ i' = 0
       /\ d' = Empty /\ tid' = Empty /\ alloc' = {}
       /\ thr' = Empty /\ run' = Empty /\ who' = Empty
  /\ UNCHANGED <<platform, initVars>>

\* entry with a non-zero block size: the partitioner, then the branch taken
EnterPartition ==
  /\ AtRest
  /\ HAVE_THREADS(backend)
  /\ \E lm \in Uint, nt \in Uint, dp \in DataPtrs :
       /\ AssertionsHold(lm, nt)
       /\ BlockSize(lm, nt) # 0
       /\ BindArgs(lm, nt, dp)
       /\ block_size' = BlockSize(lm, nt)
       /\ Dispatch(AdjustedThreads(lm, BlockSize(lm, nt)), lm, dp)
  /\ UNCHANGED <<platform, initVars, fault>>

\* entry where loopmax + nthr - 1 wrapped, so block_size is 0 and the second
\* division divides by zero: the process traps, or the division leaves some
\* quotient and execution goes on with it
EnterDivideByZero ==
  /\ AtRest
  /\ HAVE_THREADS(backend)
  /\ \E lm \in Uint, nt \in Uint, dp \in DataPtrs :
       /\ AssertionsHold(lm, nt)
       /\ BlockSize(lm, nt) = 0
       /\ BindArgs(lm, nt, dp)
       /\ block_size' = 0
       /\ \/ /\ fault' = "trap"
             /\ pc' = "aborted"
             /\ nthr' = nt /\ i' = 0
             /\ d' = Empty /\ tid' = Empty /\ alloc' = {}
             /\ thr' = Empty /\ run' = Empty /\ who' = Empty
          \/ /\ \E q \in 0 .. MaxQuot : Dispatch(q, lm, dp)
             /\ fault' = fault
  /\ UNCHANGED <<platform, initVars>>

\* proc(&d) of the single-range branch returns, and spawn_loop with it
SingleReturn ==
  /\ pc = "single"
  /\ run' = [run EXCEPT ![0] = "done"]
  /\ pc' = "returned"
  /\ UNCHANGED <<platform, initVars, fault, loopmax, nthreads, data,
                 block_size, nthr, i, d, tid, alloc, thr, who, spawnCalls,
                 joinCalls>>

(* explicit thread spawning: the spawning loop *)

\* a loop test that stops one iteration early
LoopContinuesOffByOne(k, n) == k + 1 < n

\* the loop test `i < nthr` of the spawning loop and of the joining loop
LoopContinues(k, n) == k < n

\* detach state a POSIX thread is created with: that of *fftw_pthread_attributes_p,
\* or the platform default when the pointer is NULL
CreateDetachState ==
  IF attrP = "NULL" THEN defDetach ELSE attrObj.detach

\* contention scope a POSIX thread is created with, likewise
CreateScope ==
  IF attrP = "NULL" THEN defScope ELSE attrObj.scope

\* the id a successful native spawn stores for the thread of index k
HandleOf(k) == [state |-> "valid", thread |-> k]

\* tid[k] after a native spawn that failed without being checked
TidAfterFailedSpawn(b, old) ==
  IF TidAssignedFromReturn(b) THEN InvalidTid ELSE old

\* one iteration of the spawning loop whose native spawn succeeds
SpawnOk ==
  /\ pc = "spawn"
  /\ LoopContinues(i, nthr)
  /\ d' = [d EXCEPT ![i] = SpawnedRecord(i, block_size, data)]
  /\ tid' = [tid EXCEPT ![i] = HandleOf(i)]
  /\ thr' = [thr EXCEPT ![i] = IF backend = "posix" /\ CreateDetachState # "JOINABLE"
                               THEN "detached" ELSE "live"]
  /\ run' = [run EXCEPT ![i] = "running"]
  /\ who' = [who EXCEPT ![i] = "thread"]
  /\ spawnCalls' = spawnCalls + 1
  /\ i' = i + 1
  /\ UNCHANGED <<platform, initVars, pc, fault, loopmax, nthreads, data,
                 block_size, nthr, alloc, joinCalls>>

\* one iteration whose native spawn fails, in a glue that does not look at
\* the result: no thread exists and the loop goes on
SpawnFailsUnchecked ==
  /\ pc = "spawn"
  /\ LoopContinues(i, nthr)
  /\ ~SpawnIsChecked(backend)
  /\ d' = [d EXCEPT ![i] = SpawnedRecord(i, block_size, data)]
  /\ tid' = [tid EXCEPT ![i] = TidAfterFailedSpawn(backend, tid[i])]
  /\ thr' = [thr EXCEPT ![i] = "failed"]
  /\ spawnCalls' = spawnCalls + 1
  /\ i' = i + 1
  /\ UNCHANGED <<platform, initVars, pc, fault, loopmax, nthreads, data,
                 block_size, nthr, alloc, run, who, joinCalls>>

\* one iteration whose native spawn fails under CK(...): the process aborts
SpawnFailsChecked ==
  /\ pc = "spawn"
  /\ LoopContinues(i, nthr)
  /\ SpawnIsChecked(backend)
  /\ d' = [d EXCEPT ![i] = SpawnedRecord(i, block_size, data)]
  /\ thr' = [thr EXCEPT ![i] = "failed"]
  /\ spawnCalls' = spawnCalls + 1
  /\ fault' = "CK"
  /\ pc' = "aborted"
  /\ UNCHANGED <<platform, initVars, loopmax, nthreads, data, block_size,
                 nthr, i, tid, alloc, run, who, joinCalls>>

\* after the spawning loop: d[i] is filled in and proc(&d[i]) is called by the
\* thread that called spawn_loop
LocalStart ==
  /\ pc = "spawn"
  /\ ~LoopContinues(i, nthr)
  /\ d' = [d EXCEPT ![i] = LocalRecord(i, block_size, loopmax, data)]
  /\ run' = [run EXCEPT ![i] = "running"]
  /\ who' = [who EXCEPT ![i] = "caller"]
  /\ pc' = "local"
  /\ UNCHANGED <<platform, initVars, fault, loopmax, nthreads, data,
                 block_size, nthr, i, tid, alloc, thr, spawnCalls, joinCalls>>

\* a return from the caller's own block that goes past the joining loop
LocalReturnSkipsJoins ==
  /\ pc = "local"
  /\ run' = [run EXCEPT ![i] = "done"]
  /\ i' = nthr
  /\ pc' = "join"
  /\ UNCHANGED <<platform, initVars, fault, loopmax, nthreads, data,
                 block_size, nthr, d, tid, alloc, thr, who, spawnCalls,
                 joinCalls>>

\* proc(&d[i]) returns; the joining loop starts at i = 0
LocalReturn ==
  /\ pc = "local"
  /\ run' = [run EXCEPT ![i] = "done"]
  /\ i' = 0
  /\ pc' = "join"
  /\ UNCHANGED <<platform, initVars, fault, loopmax, nthreads, data,
                 block_size, nthr, d, tid, alloc, thr, who, spawnCalls,
                 joinCalls>>

\* a spawned thread's proc(&d[k]) returns and the thread terminates
WorkerFinish ==
  /\ pc # "aborted"
  /\ \E k \in DOMAIN run :
       /\ who[k] = "thread"
       /\ run[k] = "running"
       /\ run' = [run EXCEPT ![k] = "done"]
  /\ UNCHANGED <<platform, initVars, pc, fault, loopmax, nthreads, data,
                 block_size, nthr, i, d, tid, alloc, thr, who, spawnCalls,
                 joinCalls>>

(* explicit thread spawning: the joining loop *)

\* the values a read of tid[k] can give: the id stored there, or, for an entry
\* no spawn ever wrote, whatever the memory holds (no thread's id, or by
\* coincidence the id of a thread of this call)
TidValues(k) ==
  IF tid[k] # UninitTid THEN {tid[k]}
  ELSE {InvalidTid}
       \cup {HandleOf(j) : j \in {x \in DOMAIN thr : thr[x] \in {"live", "reaped"}}}

ThreadOf(h) == h.thread

\* a join that returns without waiting for the thread to terminate
JoinReturnsAtOnce ==
  /\ pc = "join"
  /\ LoopContinues(i, nthr)
  /\ \E h \in TidValues(i) :
       /\ h # InvalidTid
       /\ thr[ThreadOf(h)] = "live"
       /\ thr' = [thr EXCEPT ![ThreadOf(h)] = "reaped"]
       /\ joinCalls' = Append(joinCalls, [tid |-> h, ok |-> TRUE])
  /\ i' = i + 1
  /\ UNCHANGED <<platform, initVars, pc, fault, loopmax, nthreads, data,
                 block_size, nthr, d, tid, alloc, run, who, spawnCalls>>

\* fftw_thr_wait(tid[i]) on a joinable thread: blocks until it has terminated
JoinWaits ==
  /\ pc = "join"
  /\ LoopContinues(i, nthr)
  /\ \E h \in TidValues(i) :
       /\ h # InvalidTid
       /\ thr[ThreadOf(h)] = "live"
       /\ run[ThreadOf(h)] = "done"
       /\ thr' = [thr EXCEPT ![ThreadOf(h)] = "reaped"]
       /\ joinCalls' = Append(joinCalls, [tid |-> h, ok |-> TRUE])
  /\ i' = i + 1
  /\ UNCHANGED <<platform, initVars, pc, fault, loopmax, nthreads, data,
                 block_size, nthr, d, tid, alloc, run, who, spawnCalls>>

\* the native join can only fail on handle h: it names no thread, or a thread
\* already joined, or a detached one
JoinMustFail(h) ==
  \/ h = InvalidTid
  \/ h # InvalidTid /\ thr[ThreadOf(h)] \in {"reaped", "detached"}

\* fftw_thr_wait(tid[i]) whose native join fails, in a glue that does not look
\* at the result: the loop goes on
JoinFailsUnchecked ==
  /\ pc = "join"
  /\ LoopContinues(i, nthr)
  /\ ~SpawnIsChecked(backend)
  /\ \E h \in TidValues(i) :
       /\ JoinMustFail(h)
       /\ joinCalls' = Append(joinCalls, [tid |-> h, ok |-> FALSE])
  /\ i' = i + 1
  /\ UNCHANGED <<platform, initVars, pc, fault, loopmax, nthreads, data,
                 block_size, nthr, d, tid, alloc, thr, run, who, spawnCalls>>

\* fftw_thr_wait(tid[i]) whose native join fails under CK(...): abort
JoinFailsChecked ==
  /\ pc = "join"
  /\ LoopContinues(i, nthr)
  /\ SpawnIsChecked(backend)
  /\ \E h \in TidValues(i) :
       /\ JoinMustFail(h)
       /\ joinCalls' = Append(joinCalls, [tid |-> h, ok |-> FALSE])
  /\ fault' = "CK"
  /\ pc' = "aborted"
  /\ UNCHANGED <<platform, initVars, loopmax, nthreads, data, block_size,
                 nthr, i, d, tid, alloc, thr, run, who, spawnCalls>>

\* after the joining loop: STACK_FREE(tid); STACK_FREE(d); return
ExplicitReturn ==
  /\ pc = "join"
  /\ ~LoopContinues(i, nthr)
  /\ alloc' = {}
  /\ pc' = "returned"
  /\ UNCHANGED <<platform, initVars, fault, loopmax, nthreads, data,
                 block_size, nthr, i, d, tid, thr, run, who, spawnCalls,
                 joinCalls>>

(* compiler-directed threads: the parallel loop *)

\* some thread of the parallel region starts iteration k: it fills its private
\* d and calls proc(&d)
IterStart ==
  /\ pc = "region"
  /\ \E k \in DOMAIN run :
       /\ run[k] = "none"
       /\ d' = [d EXCEPT ![k] = CompilerRecord(k, block_size, loopmax, data)]
       /\ run' = [run EXCEPT ![k] = "running"]
       /\ who' = [who EXCEPT ![k] = "region"]
  /\ UNCHANGED <<platform, initVars, pc, fault, loopmax, nthreads, data,
                 block_size, nthr, i, tid, alloc, thr, spawnCalls, joinCalls>>

\* proc(&d) of iteration k returns
IterFinish ==
  /\ pc = "region"
  /\ \E k \in DOMAIN run :
       /\ who[k] = "region"
       /\ run[k] = "running"
       /\ run' = [run EXCEPT ![k] = "done"]
  /\ UNCHANGED <<platform, initVars, pc, fault, loopmax, nthreads, data,
                 block_size, nthr, i, d, tid, alloc, thr, who, spawnCalls,
                 joinCalls>>

\* the parallel loop ends once every iteration has been executed; return
RegionReturn ==
  /\ pc = "region"
  /\ \A k \in DOMAIN run : run[k] = "done"
  /\ pc' = "returned"
  /\ UNCHANGED <<platform, initVars, fault, callVars>>

\* spawn_loop's frame is gone and the caller carries on
CallerResumes ==
  /\ pc = "returned"
  /\ \A k \in DOMAIN run : run[k] # "running"
  /\ pc' = "idle"
  /\ loopmax' = 0 /\ nthreads' = 0 /\ data' = "NULL"
  /\ block_size' = 0 /\ nthr' = 0 /\ i' = 0
  /\ d' = Empty /\ tid' = Empty /\ alloc' = {}
  /\ thr' = Empty /\ run' = Empty /\ who' = Empty
  /\ spawnCalls' = 0 /\ joinCalls' = <<>>
  /\ UNCHANGED <<platform, initVars, fault>>

(* --------------------------- specification ---------------------------- *)

Next ==
  \/ ThreadsInit
  \/ EnterNoThreads
  \/ EnterAssertFails
  \/ EnterPartition
  \/ EnterDivideByZero
  \/ SingleReturn
  \/ SpawnOk
  \/ SpawnFailsUnchecked
  \/ SpawnFailsChecked
  \/ LocalStart
  \/ LocalReturn
  \/ WorkerFinish
  \/ JoinWaits
  \/ JoinFailsUnchecked
  \/ JoinFailsChecked
  \/ ExplicitReturn
  \/ IterStart
  \/ IterFinish
  \/ RegionReturn
  \/ CallerResumes

Spec == Init /\ [][Next]_vars

(* ------------------------ properties: helpers ------------------------- *)

\* the explicit-spawning branch was taken: d was allocated with >= 2 entries
MultiBranch == Cardinality(DOMAIN d) >= 2

\* the worker count the partitioner left in nthr (before any --nthr)
ActualWorkers ==
  IF ExplicitSpawn(backend) /\ MultiBranch THEN nthr + 1 ELSE nthr

Min(a, b) == IF a <= b THEN a ELSE b

\* ceil(a / b) over the unbounded integers, b > 0
CeilDiv(a, b) == (a + b - 1) \div b

\* a spawn_loop call with legal arguments is in progress or has just returned
LegalCall == pc \notin {"idle", "aborted"} /\ loopmax > 0 /\ nthreads > 0

\* the records of the current call exactly partition [0, loopmax)
IsPartition ==
  LET n == Cardinality(DOMAIN d) IN
    /\ n >= 1
    /\ \A k \in DOMAIN d :
         /\ d[k] # NoRec
         /\ d[k].thr_num = k
         /\ d[k].min <= d[k].max
    /\ d[0].min = 0
    /\ d[n - 1].max = loopmax
    /\ \A k \in 0 .. (n - 2) : d[k + 1].min = d[k].max
    /\ \A x \in 0 .. (loopmax - 1) :
         Cardinality({k \in DOMAIN d : d[k].min <= x /\ x < d[k].max}) = 1

(* ----------------------------- properties ----------------------------- *)

\* C1: for every loopmax > 0 and nthr > 0, the ranges of one spawn_loop call
\* exactly partition [0, loopmax): contiguous in ascending thr_num, first
\* min 0, last max loopmax, every index in exactly one range.
C1_RangesPartition ==
  (pc = "returned" /\ loopmax > 0 /\ nthreads > 0) => IsPartition

\* C2: spawn_loop does not return before proc has completed on every range of
\* the call, whether a spawned thread or the caller runs it.
C2_BarrierBeforeReturn ==
  pc = "returned" => \A k \in DOMAIN d : run[k] = "done"

\* C3: for every loopmax > 0 and nthr > 0 the adjusted worker count is within
\* 1 .. min(loopmax, nthr) and no range is longer than ceil(loopmax / nthr).
C3_WorkerCountAndCriticalPath ==
  (HAVE_THREADS(backend) /\ LegalCall) =>
    /\ 1 <= ActualWorkers
    /\ ActualWorkers <= Min(loopmax, nthreads)
    /\ \A k \in DOMAIN d :
         d[k] # NoRec => d[k].max - d[k].min <= CeilDiv(loopmax, nthreads)

\* the caller has left the spawning loop of the explicit-spawning branch
PastSpawning == MultiBranch /\ pc \in {"local", "join", "returned"}

\* index of the record with the highest thr_num
LastIndex == Cardinality(DOMAIN d) - 1

\* the spawn, the local block and the join discipline of the multi-worker path
SpawnAndLocalDiscipline ==
  /\ PastSpawning =>
       /\ spawnCalls = ActualWorkers - 1
       /\ \A k \in 0 .. (ActualWorkers - 2) : thr[k] # "unspawned"
       /\ who[LastIndex] = "caller"
       /\ d[LastIndex].thr_num = ActualWorkers - 1
       /\ d[LastIndex].max = loopmax
  /\ \A k \in DOMAIN who :
       /\ who[k] = "caller" => k = LastIndex
       /\ who[k] = "thread" => k < LastIndex
  /\ pc = "spawn" => \A k \in DOMAIN run : who[k] # "caller"
  /\ joinCalls # <<>> => run[LastIndex] = "done"

\* C4 (as claimed, for every build with threads): with actualWorkers > 1 there
\* are exactly actualWorkers - 1 spawn calls, one per range 0 .. actualWorkers-2;
\* the last range is run by the caller, after all spawns and before any join.
C4_AsClaimed ==
  (HAVE_THREADS(backend) /\ LegalCall /\ pc = "returned" /\ ActualWorkers > 1) =>
    /\ spawnCalls = ActualWorkers - 1
    /\ who[LastIndex] = "caller"

\* C4 (amended): in the builds that spawn threads explicitly, with
\* actualWorkers > 1 there are exactly actualWorkers - 1 spawn calls, one per
\* range 0 .. actualWorkers-2; the range with the highest thr_num, ending at
\* loopmax, is run by the caller and by no spawned thread, only after all the
\* spawns were issued, and no join is issued before it has returned.
C4_ExplicitSpawnDiscipline ==
  (ExplicitSpawn(backend) /\ pc # "idle" /\ ActualWorkers > 1) =>
    SpawnAndLocalDiscipline

C4_Witness ==
  /\ ExplicitSpawn(backend)
  /\ pc = "join"
  /\ ActualWorkers = 3
  /\ Len(joinCalls) = 1
  /\ block_size > 0

\* C5: when spawn_loop has returned no thread it spawned still runs: every id
\* a spawn of the call produced was joined exactly once, and nothing else was
\* joined.
C5_JoinedExactlyOnce ==
  pc = "returned" =>
    /\ \A k \in DOMAIN run : run[k] # "running"
    /\ \A k \in DOMAIN thr :
         thr[k] # "failed" =>
           Cardinality({j \in 1 .. Len(joinCalls) : joinCalls[j].tid = HandleOf(k)}) = 1
    /\ \A j \in 1 .. Len(joinCalls) :
         /\ joinCalls[j].tid # InvalidTid
         /\ thr[ThreadOf(joinCalls[j].tid)] # "failed"

\* C6: when the partitioner leaves actualWorkers <= 1 (as it does whenever
\* loopmax = 1 or nthr = 1), proc is invoked once, by the caller, on
\* (min 0, max loopmax, thr_num 0), and no spawn and no join is made.
C6_SingleRange ==
  (HAVE_THREADS(backend) /\ LegalCall) =>
    /\ (loopmax = 1 \/ nthreads = 1) => ActualWorkers <= 1
    /\ ActualWorkers <= 1 =>
         /\ DOMAIN d = {0}
         /\ d[0] = [min |-> 0, max |-> loopmax, thr_num |-> 0, data |-> data]
         /\ who[0] = "caller"
         /\ run[0] = IF pc = "returned" THEN "done" ELSE "running"
         /\ pc \in {"single", "returned"}
         /\ spawnCalls = 0 /\ joinCalls = <<>>
         /\ thr = Empty /\ tid = Empty

C6_Witness ==
  /\ HAVE_THREADS(backend)
  /\ pc = "returned"
  /\ loopmax = 1 /\ nthreads = UintMod - 1
  /\ run = Fill(1, "done")

\* C7: in every build with native threads a failed native spawn or join aborts
\* the process at that call; spawn_loop does not go on after it.
C7_FailureIsFatal ==
  (\/ \E k \in DOMAIN thr : thr[k] = "failed"
   \/ \E j \in 1 .. Len(joinCalls) : ~joinCalls[j].ok)
  => (pc = "aborted" /\ fault = "CK")

\* C8: without a threading backend threads_init returns the non-zero
\* "no threads" status and assigns no hook, and every spawn_loop call runs proc
\* once, in the caller, on (0, loopmax, thr_num 0), spawning nothing.
C8_NoThreadsBuild ==
  ~HAVE_THREADS(backend) =>
    /\ initRet # <<>> => (initRet = <<NoThreadsStatus>> /\ initRet[1] # 0)
    /\ hooks = {}
    /\ pc \in {"idle", "single", "returned"}
    /\ pc # "idle" =>
         /\ DOMAIN d = {0}
         /\ d[0] = [min |-> 0, max |-> loopmax, thr_num |-> 0, data |-> data]
         /\ who[0] = "caller"
         /\ run[0] = IF pc = "returned" THEN "done" ELSE "running"
         /\ spawnCalls = 0 /\ joinCalls = <<>>
         /\ thr = Empty /\ tid = Empty

C8_Witness ==
  /\ ~HAVE_THREADS(backend)
  /\ initRet # <<>>
  /\ pc = "returned"
  /\ nthreads > 1 /\ loopmax > 1

\* C9: in every build, a call with loopmax = 0 or nthr = 0 is stopped by an
\* assertion at entry, before block_size is computed, a thread spawned or proc
\* invoked.
C9_AssertionAtEntry ==
  (pc # "idle" /\ (loopmax = 0 \/ nthreads = 0)) =>
    /\ pc = "aborted" /\ fault = "assertion"
    /\ d = Empty /\ spawnCalls = 0

\* C10: threads_init assigns the three hooks if and only if it returns 0; when
\* a pthread_attr_* call fails it returns that call's non-zero code, assigns
\* no hook and leaves fftw_pthread_attributes_p NULL.
C10_HooksOnlyOnSuccess ==
  /\ initRet = <<>> => (hooks = {} /\ attrP = "NULL")
  /\ initRet # <<>> =>
       /\ hooks \in {{}, Hooks}
       /\ hooks = Hooks <=> initRet[1] = 0
       /\ err # 0 => (initRet[1] = err /\ hooks = {} /\ attrP = "NULL")
       /\ (initRet[1] # 0 /\ HAVE_THREADS(backend)) => err # 0

C10_Witness ==
  /\ backend = "posix"
  /\ initRet # <<>>
  /\ err # 0
  /\ defDetach = "DETACHED"
  /\ attrObj.state = "init" /\ attrObj.detach = "JOINABLE"

\* C11: after a successful threads_init of the POSIX build, whatever the
\* platform defaults, threads are created joinable and with system scope:
\* fftw_pthread_attributes_p is NULL only when both defaults already were
\* joinable and system, and otherwise points to the initialised, not
\* destroyed, attribute object holding both values.
C11_CreationAttributes ==
  (backend = "posix" /\ initRet = <<0>>) =>
    /\ attrP = "NULL" <=> (defDetach = "JOINABLE" /\ defScope = "SYSTEM")
    /\ attrP # "NULL" =>
         attrObj = [state |-> "init", detach |-> "JOINABLE", scope |-> "SYSTEM"]
    /\ CreateDetachState = "JOINABLE"
    /\ CreateScope = "SYSTEM"
    /\ \A k \in DOMAIN thr : thr[k] # "detached"

C11_Witness ==
  /\ backend = "posix"
  /\ initRet = <<0>>
  /\ defDetach = "DETACHED" /\ defScope = "PROCESS"
  /\ attrP = "attributes"
  /\ \E k \in DOMAIN thr : thr[k] = "live"

\* number of records of the current call on which proc has been invoked
Invocations == Cardinality({k \in DOMAIN run : run[k] # "none"})

\* C12: within one spawn_loop call proc is invoked exactly once per range: the
\* number of invocations equals actualWorkers and no range is skipped,
\* whatever the interleaving.
C12_InvokedOncePerRange ==
  (HAVE_THREADS(backend) /\ pc = "returned" /\ loopmax > 0 /\ nthreads > 0) =>
    /\ Invocations = ActualWorkers
    /\ \A k \in DOMAIN d : run[k] = "done" /\ d[k] # NoRec

\* the (min, max, thr_num) of a record
RangeOf(r) == [min |-> r.min, max |-> r.max, thr_num |-> r.thr_num]

\* the ranges proc has been invoked on in the current call
DispatchedRanges == {RangeOf(d[k]) : k \in {j \in DOMAIN run : run[j] # "none"}}

\* the ranges the statements of spawn_loop compute from (lm, nt) alone in
\* build b, the block size being non-zero
RangesOfArgs(b, lm, nt) ==
  LET bs == BlockSize(lm, nt)
      n  == AdjustedThreads(lm, bs)
  IN IF TakesSingleBranch(n) THEN {RangeOf(SingleRecord(lm, "data_p"))}
     ELSE IF USING_COMPILER_THREADS(b)
     THEN {RangeOf(CompilerRecord(k, bs, lm, "data_p")) : k \in 0 .. (n - 1)}
     ELSE {RangeOf(SpawnedRecord(k, bs, "data_p")) : k \in 0 .. (n - 2)}
          \cup {RangeOf(LocalRecord(n - 1, bs, lm, "data_p"))}

\* C13: the ranges a spawn_loop call hands to proc are a function of
\* (loopmax, nthr) only: whatever the interleaving and the earlier calls, a
\* call that has returned has invoked proc on exactly the ranges its
\* arguments determine.
C13_RangesDependOnArgsOnly ==
  (HAVE_THREADS(backend) /\ pc = "returned" /\ loopmax > 0 /\ nthreads > 0
     /\ block_size # 0) =>
    DispatchedRanges = RangesOfArgs(backend, loopmax, nthreads)

\* C14: the arrays d and tid of the multi-worker path stay allocated until
\* the joining loop has made all its joins and are both released when
\* spawn_loop returns; no spawned thread is still running proc on its record
\* once the arrays are released.
C14_ReleasedAfterJoins ==
  /\ pc = "returned" => alloc = {}
  /\ \A k \in DOMAIN run :
       (who[k] = "thread" /\ run[k] = "running") => "d" \in alloc
  /\ (ExplicitSpawn(backend) /\ MultiBranch) =>
       /\ pc \in {"spawn", "local", "join"} => alloc = {"d", "tid"}
       /\ pc = "returned" => Len(joinCalls) = nthr

C14_Witness ==
  /\ ExplicitSpawn(backend)
  /\ pc = "returned"
  /\ alloc = {}
  /\ Len(joinCalls) = 2
  /\ \A k \in DOMAIN thr : thr[k] = "reaped"
  /\ \A k \in DOMAIN run : run[k] = "done"

\* C15: for every loopmax > 0 and nthr > 0 of the uint type, values next to
\* the largest included, block_size is ceil(loopmax / nthr), hence at least 1,
\* and the adjusted worker count is ceil(loopmax / block_size).
C15_CeilingsInUintArithmetic ==
  (HAVE_THREADS(backend) /\ LegalCall) =>
    /\ block_size >= 1
    /\ block_size = CeilDiv(loopmax, nthreads)
    /\ ActualWorkers = CeilDiv(loopmax, block_size)

\* C16: with blockSize = ceil(loopmax / nthr), actualWorkers is the least k
\* with k * blockSize >= loopmax; every range but the last has exactly
\* blockSize indices, the last has between 1 and blockSize, none is empty;
\* loopmax = 5, nthr = 4 gives [0,2), [2,4), [4,5) on 3 workers.
C16_FewestWorkersEvenBlocks ==
  (HAVE_THREADS(backend) /\ pc = "returned" /\ loopmax > 0 /\ nthreads > 0) =>
    LET bs == CeilDiv(loopmax, nthreads)
        n  == ActualWorkers
    IN /\ n * bs >= loopmax
       /\ (n - 1) * bs < loopmax
       /\ DOMAIN d = 0 .. (n - 1)
       /\ \A k \in 0 .. (n - 2) : d[k].max - d[k].min = bs
       /\ d[n - 1].max - d[n - 1].min >= 1
       /\ d[n - 1].max - d[n - 1].min <= bs
       /\ (loopmax = 5 /\ nthreads = 4) =>
            {RangeOf(d[k]) : k \in DOMAIN d}
              = {[min |-> 0, max |-> 2, thr_num |-> 0],
                 [min |-> 2, max |-> 4, thr_num |-> 1],
                 [min |-> 4, max |-> 5, thr_num |-> 2]}

\* indices of the records proc has been invoked on in the current call
Invoked == {k \in DOMAIN run : run[k] # "none"}

\* C17: every record handed to proc has thr_num in 0 .. nthr-1 (nthr as
\* passed by the caller) and carries the data pointer passed to spawn_loop;
\* the thr_num values of one call are exactly 0 .. actualWorkers-1, none twice.
C17_ThrNumAndData ==
  (HAVE_THREADS(backend) /\ LegalCall) =>
    /\ \A k \in Invoked :
         /\ d[k].thr_num \in 0 .. (nthreads - 1)
         /\ d[k].data = data
    /\ \A j, k \in Invoked : d[j].thr_num = d[k].thr_num => j = k
    /\ pc = "returned" =>
         {d[k].thr_num : k \in Invoked} = 0 .. (ActualWorkers - 1)

\* proc is running on d[k], or a thread was spawned on d[k] and is not joined
InUse(k) ==
  \/ run[k] = "running"
  \/ k \in DOMAIN thr /\ thr[k] \in {"live", "detached"}

\* all four fields of record r have been stored
FullyWritten(r) ==
  r.min # NoRec.min /\ r.max # NoRec.max /\ r.thr_num # NoRec.thr_num
    /\ r.data \in DataPtrs

\* every record in use is fully written, and distinct invocations that run
\* concurrently have distinct records
RecordsOwned ==
  /\ \A k \in DOMAIN d : InUse(k) => (FullyWritten(d[k]) /\ d[k].thr_num = k)
  /\ \A j, k \in DOMAIN d : (InUse(j) /\ InUse(k) /\ j # k) => d[j] # d[k]

\* no step changes, or takes away, a record that is in use
RecordsStable ==
  \A k \in DOMAIN d : InUse(k) => (k \in DOMAIN d' /\ d'[k] = d[k])

\* C18: no record is shared or raced on: each invocation of proc has its own
\* record, written in full (min, max, thr_num, data) before the spawn that
\* passes it, and no field of it is written from the spawn of its worker to
\* the join of that worker; concurrent invocations never have the same record.
C18_RecordsNotRaced == []RecordsOwned /\ [][RecordsStable]_vars

C18_Witness ==
  /\ ExplicitSpawn(backend)
  /\ pc = "local"
  /\ Cardinality(DOMAIN d) = 3
  /\ \A k \in DOMAIN d : run[k] = "running" /\ FullyWritten(d[k])
  /\ block_size > 0

\* the records spawn_loop fills in, in the build with compiler-directed
\* threads (compiler = TRUE) or in one that spawns threads explicitly, once
\* nthr = n and block_size = bs have been computed
VariantTuples(compiler, n, bs, lm, dp) ==
  IF TakesSingleBranch(n) THEN {SingleRecord(lm, dp)}
  ELSE IF compiler
  THEN {CompilerRecord(k, bs, lm, dp) : k \in 0 .. (n - 1)}
  ELSE {SpawnedRecord(k, bs, dp) : k \in 0 .. (n - 2)}
       \cup {LocalRecord(n - 1, bs, lm, dp)}

\* C19: for every loopmax > 0 and nthr > 0 the compiler-directed variant and
\* the explicit spawn/join variant invoke proc on the same set of
\* (min, max, thr_num, data) tuples.
C19_VariantsDispatchSameTuples ==
  (HAVE_THREADS(backend) /\ pc = "returned" /\ loopmax > 0 /\ nthreads > 0) =>
    LET byCompiler == VariantTuples(TRUE, ActualWorkers, block_size, loopmax, data)
        byExplicit == VariantTuples(FALSE, ActualWorkers, block_size, loopmax, data)
    IN /\ byCompiler = byExplicit
       /\ {d[k] : k \in Invoked} = byCompiler

(* ----------------------------- termination ---------------------------- *)

\* the steps of the thread that called spawn_loop, from the branch taken to
\* the return (the proc it runs itself returning included)
CallerStep ==
  \/ SingleReturn
  \/ SpawnOk \/ SpawnFailsUnchecked \/ SpawnFailsChecked
  \/ LocalStart \/ LocalReturn
  \/ JoinWaits \/ JoinFailsUnchecked \/ JoinFailsChecked
  \/ ExplicitReturn
  \/ RegionReturn

\* the steps of the other threads: a spawned thread's proc returns, a thread
\* of the parallel loop takes an iteration or its proc returns
WorkerStep == WorkerFinish \/ IterStart \/ IterFinish

\* the calling thread keeps executing (a join blocks only until its thread
\* has terminated), the other threads are scheduled, and every proc
\* invocation returns
FairSpec ==
  /\ Spec
  /\ WF_vars(CallerStep)
  /\ WF_vars(WorkerStep)

\* spawn_loop is past its entry and has not returned
InCall == pc \in {"single", "spawn", "local", "join", "region"}

\* a native spawn or join of the current call has failed
NativeFailure ==
  \/ \E k \in DOMAIN thr : thr[k] = "failed"
  \/ \E j \in 1 .. Len(joinCalls) : ~joinCalls[j].ok

\* C20: when every proc invocation returns, no native spawn or join fails
\* and the threads are scheduled fairly, a spawn_loop call eventually returns;
\* and spawn_loop never returns while a proc invocation of the call has not
\* returned, so one that never does keeps it from returning for ever.
C20_ReturnsIffWorkersDo ==
  /\ (InCall /\ ~NativeFailure) ~> (pc = "returned" \/ NativeFailure)
  /\ [](pc = "returned" => \A k \in Invoked : run[k] = "done")

C20_Witness ==
  /\ ExplicitSpawn(backend)
  /\ pc = "join"
  /\ ~NativeFailure
  /\ i = 1
  /\ 1 \in DOMAIN thr
  /\ thr[1] = "live" /\ run[1] = "running"

====
